---- MODULE Spec2Model ----
(***************************************************************************)
(* Synthetic transaction generator (backend/data_generators): the          *)
(* population builder TransactionGenerator, the normal-transaction         *)
(* synthesizer and the seven fraud patterns of FraudPatternGenerator.      *)
(*                                                                         *)
(* Units.  Python floats are kept as scaled integers:                      *)
(*   coordinates and coordinate offsets   tenths of a degree               *)
(*   money before rounding                1/10000 dollar                   *)
(*   amount (after round(x, 2))           cents                            *)
(*   the 10..20 factor of unusual_amount  tenths                           *)
(*   random.random()                      thousandths                      *)
(*   timestamps, time offsets             seconds                          *)
(* A random draw is a choice from a finite sample of the drawn range that  *)
(* always holds both ends of the range.                                    *)
(***************************************************************************)
EXTENDS Integers, Sequences, FiniteSets

VARIABLES
    constructed,    \* a TransactionGenerator object exists
    num_users,      \* self.num_users
    num_merchants,  \* self.num_merchants
    users,          \* self.users (shared with FraudPatternGenerator.users)
    merchants,      \* self.merchants (shared with FraudPatternGenerator.merchants)
    clock,          \* what datetime.now() reads
    op,             \* the generator method called last
    rnd,            \* the random.random() draw of the last generate_transaction
    result          \* what the last call handed to its caller

vars == <<constructed, num_users, num_merchants, users, merchants, clock, op, rnd, result>>

(***************************************************************************)
(* Bounds of the model.                                                    *)
(***************************************************************************)
MaxUsers == 2       \* largest num_users passed to the constructor
MaxMerchants == 2   \* largest num_merchants passed to the constructor
NumUuid == 2        \* distinct values str(uuid.uuid4())[:8] is sampled from
SampleRes == 2      \* a drawn range [a, b] is sampled at a + (b-a)*s/SampleRes
MaxClock == 1       \* seconds the clock may advance

Samples == 0..SampleRes
EndSamples == {0, SampleRes}
EdgeSamples == {0, SampleRes \div 2, SampleRes}

(***************************************************************************)
(* config.py                                                               *)
(***************************************************************************)
MERCHANT_CATEGORIES ==
    <<"grocery", "restaurant", "gas_station", "pharmacy", "electronics",
      "clothing", "entertainment", "travel", "utilities", "online_retail">>

\* (min, max) in dollars
CATEGORY_SPENDING_RANGES ==
    [c \in {MERCHANT_CATEGORIES[i] : i \in 1..Len(MERCHANT_CATEGORIES)} |->
        CASE c = "grocery"       -> <<20, 150>>
          [] c = "restaurant"    -> <<15, 80>>
          [] c = "gas_station"   -> <<30, 70>>
          [] c = "pharmacy"      -> <<10, 100>>
          [] c = "electronics"   -> <<50, 500>>
          [] c = "clothing"      -> <<30, 200>>
          [] c = "entertainment" -> <<20, 150>>
          [] c = "travel"        -> <<100, 1000>>
          [] c = "utilities"     -> <<50, 300>>
          [] c = "online_retail" -> <<25, 250>>]

US_LAT_RANGE == <<250, 490>>      \* (25.0, 49.0) degrees
US_LON_RANGE == <<-1250, -660>>   \* (-125.0, -66.0) degrees
FRAUD_PROBABILITY == 20           \* 0.02

None == "None"
IndexError == "IndexError"

(***************************************************************************)
(* The random module, round() and min()/max().                             *)
(***************************************************************************)
\* random.uniform(a, b) / random.randint(a, b) at sample point s
uniform(a, b, s) == a + ((b - a) * s) \div SampleRes

randint(a, b, s) == a + ((b - a) * s) \div SampleRes

\* the indices random.choice(seq) may pick; 0 stands for "nothing to pick"
Indices(seq) == IF Len(seq) = 0 THEN {0} ELSE 1..Len(seq)

\* round(n/d, 2) of an amount of n/d cents: nearest cent, ties to even
round2(n, d) ==
    LET q == n \div d
        r == n % d
    IN  IF 2 * r < d THEN q
        ELSE IF 2 * r > d THEN q + 1
        ELSE IF q % 2 = 0 THEN q ELSE q + 1

max(a, b) == IF a >= b THEN a ELSE b

min(a, b) == IF a <= b THEN a ELSE b

\* max(range[0], min(range[1], x))
clamp(range, x) == max(range[1], min(range[2], x))

(***************************************************************************)
(* models/transaction.py                                                   *)
(***************************************************************************)
User(user_id, home_lat, home_lon, typical_spending, account_age_days) ==
    [user_id |-> user_id, home_lat |-> home_lat, home_lon |-> home_lon,
     typical_spending |-> typical_spending, account_age_days |-> account_age_days]

Merchant(merchant_id, merchant_name, category, average_transaction) ==
    [merchant_id |-> merchant_id, merchant_name |-> merchant_name,
     category |-> category, average_transaction |-> average_transaction]

\* variant: merchant_id is filled from the user's id
Transaction_id_mixup(timestamp, user, merchant, amount, lat, lon, device_id, is_fraud, fraud_type) ==
    [timestamp |-> timestamp, user_id |-> user.user_id,
     merchant_id |-> user.user_id, merchant_name |-> merchant.merchant_name,
     merchant_category |-> merchant.category, amount |-> amount,
     location_lat |-> lat, location_lon |-> lon,
     device_id |-> device_id, is_fraud |-> is_fraud, fraud_type |-> fraud_type]

Transaction(timestamp, user, merchant, amount, lat, lon, device_id, is_fraud, fraud_type) ==
    [timestamp |-> timestamp, user_id |-> user.user_id,
     merchant_id |-> merchant.merchant_id, merchant_name |-> merchant.merchant_name,
     merchant_category |-> merchant.category, amount |-> amount,
     location_lat |-> lat, location_lon |-> lon,
     device_id |-> device_id, is_fraud |-> is_fraud, fraud_type |-> fraud_type]

(***************************************************************************)
(* What a call hands to its caller.                                        *)
(***************************************************************************)
NoResult == [kind |-> "none", exc |-> None, is_list |-> FALSE, value |-> <<>>]

Raise(exc) == [kind |-> "raise", exc |-> exc, is_list |-> FALSE, value |-> <<>>]

Return(tx) == [kind |-> "return", exc |-> None, is_list |-> FALSE, value |-> <<tx>>]

ReturnList(txs) == [kind |-> "return", exc |-> None, is_list |-> TRUE, value |-> txs]

(***************************************************************************)
(* generator.py: building the population                                   *)
(***************************************************************************)
\* what one pass of the user loop draws: the uuid prefix, and one sample
\* point s for the uniform()/randint() draws of that user
UserDraws == [uuid : 1..NumUuid, s : EndSamples]

\* what one pass of the merchant loop draws
MerchantDraws == [uuid : 1..NumUuid, name : {<<"Company", 1>>}, cat : EndSamples]

\* for i in range(self.num_users): self.users.append(User(...))
_generate_users(n, draws) ==
    [i \in 1..n |->
        User(<<"USER", draws[i].uuid>>,
             uniform(US_LAT_RANGE[1], US_LAT_RANGE[2], draws[i].s),
             uniform(US_LON_RANGE[1], US_LON_RANGE[2], draws[i].s),
             uniform(500000, 5000000, draws[i].s),
             randint(30, 3650, draws[i].s))]

\* random.choice(MERCHANT_CATEGORIES) at sample point s
choice_category(s) == MERCHANT_CATEGORIES[1 + ((Len(MERCHANT_CATEGORIES) - 1) * s) \div SampleRes]

\* avg_amount = sum(CATEGORY_SPENDING_RANGES[category]) / 2, in 1/10000 dollar
avg_amount(category) ==
    (CATEGORY_SPENDING_RANGES[category][1] + CATEGORY_SPENDING_RANGES[category][2]) * 5000

\* for i in range(self.num_merchants): self.merchants.append(Merchant(...))
_generate_merchants(n, draws) ==
    [i \in 1..n |->
        Merchant(<<"MERCH", draws[i].uuid>>, draws[i].name,
                 choice_category(draws[i].cat), avg_amount(choice_category(draws[i].cat)))]

\* TransactionGenerator(num_users, num_merchants)
TransactionGenerator ==
    /\ ~constructed
    /\ \E nu \in -1..MaxUsers, nm \in -1..MaxMerchants,
          udraws \in [1..MaxUsers -> UserDraws],
          mdraws \in [1..MaxMerchants -> MerchantDraws] :
         /\ num_users' = nu
         /\ num_merchants' = nm
         /\ users' = _generate_users(nu, udraws)
         /\ merchants' = _generate_merchants(nm, mdraws)
    /\ constructed' = TRUE
    /\ UNCHANGED <<clock, op, rnd, result>>

(***************************************************************************)
(* Populations the generators are exercised on: the pools                  *)
(* TransactionGenerator(nu, nm) builds when its loops draw these values.   *)
(***************************************************************************)
UserStream ==
    <<[home_lat |-> 252, home_lon |-> -663,  typical_spending |-> 500001,  account_age_days |-> 30],
      [home_lat |-> 370, home_lon |-> -955,  typical_spending |-> 1234567, account_age_days |-> 365],
      [home_lat |-> 488, home_lon |-> -1249, typical_spending |-> 5000000, account_age_days |-> 3650],
      [home_lat |-> 262, home_lon |-> -700,  typical_spending |-> 3333333, account_age_days |-> 100]>>

SampleUsers(n) ==
    [i \in 1..n |->
        LET d == UserStream[((i - 1) % Len(UserStream)) + 1]
        IN  User(<<"USER", i>>, d.home_lat, d.home_lon, d.typical_spending, d.account_age_days)]

MerchantStream == <<"grocery", "electronics", "travel", "online_retail">>

SampleMerchants(n) ==
    [i \in 1..n |->
        LET c == MerchantStream[((i - 1) % Len(MerchantStream)) + 1]
        IN  Merchant(<<"MERCH", i>>, <<"Company", i>>, c, avg_amount(c))]

(***************************************************************************)
(* generator.py: the normal-transaction synthesizer                        *)
(***************************************************************************)
\* variant: the amount is drawn around the user's typical_spending
normal_tx_by_spending(user, merchant, now, sa, slat, slon, sdev) ==
    Transaction(now, user, merchant,
                round2(uniform(user.typical_spending \div 2, user.typical_spending * 2, sa), 100),
                user.home_lat + uniform(-7, 7, slat),
                user.home_lon + uniform(-7, 7, slon),
                randint(1000, 9999, sdev), FALSE, None)

\* variant: the record is flagged as fraud but carries no fraud_type
normal_tx_flagged(user, merchant, now, sa, slat, slon, sdev) ==
    LET min_amount == CATEGORY_SPENDING_RANGES[merchant.category][1] * 10000
        max_amount == CATEGORY_SPENDING_RANGES[merchant.category][2] * 10000
    IN  Transaction(now, user, merchant,
                    round2(uniform(min_amount, max_amount, sa), 100),
                    user.home_lat + uniform(-7, 7, slat),
                    user.home_lon + uniform(-7, 7, slon),
                    randint(1000, 9999, sdev), TRUE, None)

\* the Transaction built from the chosen user and merchant and the draws
\* sa (amount), slat, slon (location), sdev (device)
normal_tx(user, merchant, now, sa, slat, slon, sdev) ==
    LET min_amount == CATEGORY_SPENDING_RANGES[merchant.category][1] * 10000
        max_amount == CATEGORY_SPENDING_RANGES[merchant.category][2] * 10000
    IN  Transaction(now, user, merchant,
                    round2(uniform(min_amount, max_amount, sa), 100),
                    user.home_lat + uniform(-7, 7, slat),
                    user.home_lon + uniform(-7, 7, slon),
                    randint(1000, 9999, sdev), FALSE, None)

\* generate_normal_transaction() with random.choice picking users[iu], merchants[im]
generate_normal_transaction_result(iu, im, sa, slat, slon, sdev) ==
    IF iu = 0 THEN Raise(IndexError)
    ELSE IF im = 0 THEN Raise(IndexError)
    ELSE Return(normal_tx(users[iu], merchants[im], clock, sa, slat, slon, sdev))

\* every outcome generate_normal_transaction() can have in this state
normal_outcomes ==
    {generate_normal_transaction_result(iu, im, sa, slat, slon, sdev) :
        iu \in Indices(users), im \in Indices(merchants), sa \in Samples,
        slat \in EdgeSamples, slon \in EdgeSamples, sdev \in EndSamples}

\* values random.random() is sampled at, around FRAUD_PROBABILITY
RandomDraws == {0, FRAUD_PROBABILITY - 1, FRAUD_PROBABILITY, 999}

\* generate_transaction() when random.random() returned r
generate_transaction_outcomes(r) ==
    IF r < FRAUD_PROBABILITY THEN normal_outcomes ELSE normal_outcomes

(***************************************************************************)
(* fraud_patterns.py                                                       *)
(***************************************************************************)
\* variant: the factor is drawn from uniform(5, 20)
unusual_amount_tx_from5(user, merchant, now, sf, slat, slon, sdev) ==
    Transaction(now, user, merchant,
                round2(user.typical_spending * uniform(50, 200, sf), 1000),
                user.home_lat + uniform(-5, 5, slat),
                user.home_lon + uniform(-5, 5, slon),
                randint(1000, 9999, sdev), TRUE, "unusual_amount")

\* PATTERN 1; sf is the sample point of random.uniform(10, 20)
unusual_amount_tx(user, merchant, now, sf, slat, slon, sdev) ==
    Transaction(now, user, merchant,
                round2(user.typical_spending * uniform(100, 200, sf), 1000),
                user.home_lat + uniform(-5, 5, slat),
                user.home_lon + uniform(-5, 5, slon),
                randint(1000, 9999, sdev), TRUE, "unusual_amount")

generate_unusual_amount_result(iu, im, sf, slat, slon, sdev) ==
    IF iu = 0 THEN Raise(IndexError)
    ELSE IF im = 0 THEN Raise(IndexError)
    ELSE Return(unusual_amount_tx(users[iu], merchants[im], clock, sf, slat, slon, sdev))

unusual_amount_outcomes ==
    {generate_unusual_amount_result(iu, im, sf, slat, slon, sdev) :
        iu \in Indices(users), im \in Indices(merchants), sf \in Samples,
        slat \in EdgeSamples, slon \in EdgeSamples, sdev \in EndSamples}

\* far = home + random.uniform(10, 30) * random.choice([-1, 1]), then clamped
far_lat(user, s, sign) == clamp(US_LAT_RANGE, user.home_lat + uniform(100, 300, s) * sign)

far_lon(user, s, sign) == clamp(US_LON_RANGE, user.home_lon + uniform(100, 300, s) * sign)

\* PATTERN 2
geographic_anomaly_tx(user, merchant, now, sa, slat, glat, slon, glon, sdev) ==
    Transaction(now, user, merchant,
                round2(uniform(1000000, 5000000, sa), 100),
                far_lat(user, slat, glat), far_lon(user, slon, glon),
                randint(5000, 9999, sdev), TRUE, "geographic_anomaly")

generate_geographic_anomaly_result(iu, im, sa, slat, glat, slon, glon, sdev) ==
    IF iu = 0 THEN Raise(IndexError)
    ELSE IF im = 0 THEN Raise(IndexError)
    ELSE Return(geographic_anomaly_tx(users[iu], merchants[im], clock,
                                      sa, slat, glat, slon, glon, sdev))

geographic_anomaly_outcomes ==
    {generate_geographic_anomaly_result(iu, im, sa, slat, glat, slon, glon, sdev) :
        iu \in Indices(users), im \in Indices(merchants), sa \in Samples,
        slat \in EdgeSamples, glat \in {-1, 1}, slon \in EdgeSamples, glon \in {-1, 1},
        sdev \in EndSamples}

\* what one pass of a burst loop draws: the merchant index, and one sample
\* point s for the randint()/uniform() draws of that record
BurstDraws == [m : Indices(merchants), s : Samples]

\* the draws of pass i when the passes alternate between d1 and d2
pass(i, d1, d2) == IF i % 2 = 1 THEN d1 ELSE d2

\* variant: the time offset is taken in minutes, as in card testing
high_frequency_tx_minutes(user, merchant, base_time, s) ==
    Transaction(base_time + 60 * randint(0, 300, s), user, merchant,
                round2(uniform(500000, 3000000, s), 100),
                user.home_lat + uniform(-10, 10, s),
                user.home_lon + uniform(-10, 10, s),
                randint(1000, 9999, s), TRUE, "high_frequency")

\* PATTERN 3, one record of the burst
high_frequency_tx(user, merchant, base_time, s) ==
    Transaction(base_time + randint(0, 300, s), user, merchant,
                round2(uniform(500000, 3000000, s), 100),
                user.home_lat + uniform(-10, 10, s),
                user.home_lon + uniform(-10, 10, s),
                randint(1000, 9999, s), TRUE, "high_frequency")

\* variant: a loop that cannot choose a merchant stops and the records built
\* so far are returned
generate_high_frequency_partial(iu, n, d1, d2) ==
    IF iu = 0 THEN Raise(IndexError)
    ELSE IF n > 0 /\ Len(merchants) = 0 THEN ReturnList(<<>>)
    ELSE ReturnList([i \in 1..n |->
            high_frequency_tx(users[iu], merchants[pass(i, d1, d2).m], clock,
                              pass(i, d1, d2).s)])

\* generate_high_frequency() with num_transactions = n
generate_high_frequency_result(iu, n, d1, d2) ==
    IF iu = 0 THEN Raise(IndexError)
    ELSE IF n > 0 /\ Len(merchants) = 0 THEN Raise(IndexError)
    ELSE ReturnList([i \in 1..n |->
            high_frequency_tx(users[iu], merchants[pass(i, d1, d2).m], clock,
                              pass(i, d1, d2).s)])

high_frequency_outcomes ==
    {generate_high_frequency_result(iu, n, d1, d2) :
        iu \in Indices(users), n \in 8..15, d1 \in BurstDraws, d2 \in BurstDraws}

\* variant: the test amount is drawn from uniform(0.50, 50.00)
card_testing_tx_tenfold(user, merchant, base_time, s) ==
    Transaction(base_time + 60 * randint(0, 30, s), user, merchant,
                round2(uniform(5000, 500000, s), 100),
                user.home_lat + uniform(-3, 3, s),
                user.home_lon + uniform(-3, 3, s),
                randint(1000, 9999, s), TRUE, "card_testing")

\* PATTERN 4, one record of the burst
card_testing_tx(user, merchant, base_time, s) ==
    Transaction(base_time + 60 * randint(0, 30, s), user, merchant,
                round2(uniform(5000, 50000, s), 100),
                user.home_lat + uniform(-3, 3, s),
                user.home_lon + uniform(-3, 3, s),
                randint(1000, 9999, s), TRUE, "card_testing")

\* generate_card_testing() with num_tests = n
generate_card_testing_result(iu, n, d1, d2) ==
    IF iu = 0 THEN Raise(IndexError)
    ELSE IF n > 0 /\ Len(merchants) = 0 THEN Raise(IndexError)
    ELSE ReturnList([i \in 1..n |->
            card_testing_tx(users[iu], merchants[pass(i, d1, d2).m], clock,
                            pass(i, d1, d2).s)])

card_testing_outcomes ==
    {generate_card_testing_result(iu, n, d1, d2) :
        iu \in Indices(users), n \in 5..10, d1 \in BurstDraws, d2 \in BurstDraws}

\* datetime.replace(hour=h, minute=mi)
replace_hour_minute(now, h, mi) == (now \div 86400) * 86400 + h * 3600 + mi * 60 + (now % 60)

\* PATTERN 5
time_anomaly_tx(user, merchant, now, sh, smi, sa, slat, slon, sdev) ==
    Transaction(replace_hour_minute(now, randint(1, 5, sh), randint(0, 59, smi)),
                user, merchant,
                round2(uniform(1000000, 8000000, sa), 100),
                user.home_lat + uniform(-20, 20, slat),
                user.home_lon + uniform(-20, 20, slon),
                randint(5000, 9999, sdev), TRUE, "time_anomaly")

generate_time_anomaly_result(iu, im, sh, smi, sa, slat, slon, sdev) ==
    IF iu = 0 THEN Raise(IndexError)
    ELSE IF im = 0 THEN Raise(IndexError)
    ELSE Return(time_anomaly_tx(users[iu], merchants[im], clock,
                                sh, smi, sa, slat, slon, sdev))

time_anomaly_outcomes ==
    {generate_time_anomaly_result(iu, im, sh, smi, sa, slat, slon, sdev) :
        iu \in Indices(users), im \in Indices(merchants), sh \in EndSamples,
        smi \in EndSamples, sa \in Samples, slat \in EdgeSamples, slon \in EdgeSamples,
        sdev \in EndSamples}

\* in cents
round_amounts == <<10000, 20000, 25000, 50000, 75000, 100000, 150000>>

\* PATTERN 6; ia is the index random.choice(round_amounts) picks
round_amount_tx(user, merchant, now, ia, slat, slon, sdev) ==
    Transaction(now, user, merchant, round_amounts[ia],
                user.home_lat + uniform(-10, 10, slat),
                user.home_lon + uniform(-10, 10, slon),
                randint(1000, 9999, sdev), TRUE, "round_amount")

generate_round_amount_result(iu, im, ia, slat, slon, sdev) ==
    IF iu = 0 THEN Raise(IndexError)
    ELSE IF im = 0 THEN Raise(IndexError)
    ELSE Return(round_amount_tx(users[iu], merchants[im], clock, ia, slat, slon, sdev))

round_amount_outcomes ==
    {generate_round_amount_result(iu, im, ia, slat, slon, sdev) :
        iu \in Indices(users), im \in Indices(merchants), ia \in Indices(round_amounts),
        slat \in EdgeSamples, slon \in EdgeSamples, sdev \in EndSamples}

high_risk_categories == {"electronics", "jewelry", "online_retail"}

\* [m for m in self.merchants if m.category in high_risk_categories]
high_risk_merchants == SelectSeq(merchants, LAMBDA m : m.category \in high_risk_categories)

\* variant: the merchant is chosen from the whole pool
high_risk_pool_unfiltered == merchants

\* the list the merchant is chosen from: self.merchants if not high_risk_merchants
high_risk_pool == IF Len(high_risk_merchants) = 0 THEN merchants ELSE high_risk_merchants

\* PATTERN 7
high_risk_category_tx(user, merchant, now, sa, slat, slon, sdev) ==
    Transaction(now, user, merchant,
                round2(uniform(20000000, 50000000, sa), 100),
                user.home_lat + uniform(-30, 30, slat),
                user.home_lon + uniform(-30, 30, slon),
                randint(5000, 9999, sdev), TRUE, "high_risk_category")

generate_high_risk_category_result(iu, im, sa, slat, slon, sdev) ==
    IF iu = 0 THEN Raise(IndexError)
    ELSE IF im = 0 THEN Raise(IndexError)
    ELSE Return(high_risk_category_tx(users[iu], high_risk_pool[im], clock,
                                      sa, slat, slon, sdev))

high_risk_category_outcomes ==
    {generate_high_risk_category_result(iu, im, sa, slat, slon, sdev) :
        iu \in Indices(users), im \in Indices(high_risk_pool), sa \in Samples,
        slat \in EdgeSamples, slon \in EdgeSamples, sdev \in EndSamples}

\* variant: the two burst patterns are in the list of generators too
random_fraud_outcomes_with_bursts ==
    unusual_amount_outcomes \cup geographic_anomaly_outcomes \cup time_anomaly_outcomes
        \cup round_amount_outcomes \cup high_risk_category_outcomes
        \cup high_frequency_outcomes \cup card_testing_outcomes

\* generate_random_fraud(): random.choice(fraud_generators)()
random_fraud_outcomes ==
    unusual_amount_outcomes \cup geographic_anomaly_outcomes \cup time_anomaly_outcomes
        \cup round_amount_outcomes \cup high_risk_category_outcomes

(***************************************************************************)
(* The calls.  A caller makes one call at a time and takes what it         *)
(* returned or raised before it makes the next one.                        *)
(***************************************************************************)
Ready == constructed /\ result.kind = "none"

\* variant: the call takes the first user out of the pool (pop instead of choice)
Finish_popping(name, r, res) ==
    /\ op' = name
    /\ rnd' = r
    /\ result' = res
    /\ users' = IF Len(users) = 0 THEN users ELSE Tail(users)
    /\ UNCHANGED <<constructed, num_users, num_merchants, merchants, clock>>

Finish(name, r, res) ==
    /\ op' = name
    /\ rnd' = r
    /\ result' = res
    /\ UNCHANGED <<constructed, num_users, num_merchants, users, merchants, clock>>

generate_normal_transaction ==
    /\ Ready
    /\ \E res \in normal_outcomes : Finish("generate_normal_transaction", 0, res)

generate_transaction ==
    /\ Ready
    /\ \E r \in RandomDraws :
         \E res \in generate_transaction_outcomes(r) : Finish("generate_transaction", r, res)

generate_unusual_amount ==
    /\ Ready
    /\ \E res \in unusual_amount_outcomes : Finish("generate_unusual_amount", 0, res)

generate_geographic_anomaly ==
    /\ Ready
    /\ \E res \in geographic_anomaly_outcomes : Finish("generate_geographic_anomaly", 0, res)

generate_high_frequency ==
    /\ Ready
    /\ \E res \in high_frequency_outcomes : Finish("generate_high_frequency", 0, res)

generate_card_testing ==
    /\ Ready
    /\ \E res \in card_testing_outcomes : Finish("generate_card_testing", 0, res)

generate_time_anomaly ==
    /\ Ready
    /\ \E res \in time_anomaly_outcomes : Finish("generate_time_anomaly", 0, res)

generate_round_amount ==
    /\ Ready
    /\ \E res \in round_amount_outcomes : Finish("generate_round_amount", 0, res)

generate_high_risk_category ==
    /\ Ready
    /\ \E res \in high_risk_category_outcomes : Finish("generate_high_risk_category", 0, res)

generate_random_fraud ==
    /\ Ready
    /\ \E res \in random_fraud_outcomes : Finish("generate_random_fraud", 0, res)

\* the caller takes the value (prints it, counts it) and is ready to call again
Consume ==
    /\ result.kind # "none"
    /\ result' = NoResult
    /\ op' = None
    /\ rnd' = 0
    /\ UNCHANGED <<constructed, num_users, num_merchants, users, merchants, clock>>

\* time passes
Tick ==
    /\ clock < MaxClock
    /\ clock' = clock + 1
    /\ UNCHANGED <<constructed, num_users, num_merchants, users, merchants, op, rnd, result>>

(***************************************************************************)
(* Specifications                                                          *)
(***************************************************************************)
\* before TransactionGenerator(...) is called
InitBuild ==
    /\ constructed = FALSE
    /\ num_users = 0
    /\ num_merchants = 0
    /\ users = <<>>
    /\ merchants = <<>>
    /\ clock = 0
    /\ op = None
    /\ rnd = 0
    /\ result = NoResult

NextBuild == TransactionGenerator

SpecBuild == InitBuild /\ [][NextBuild]_vars

\* after TransactionGenerator(nu, nm) returned
Init ==
    /\ constructed = TRUE
    /\ \E nu \in 0..MaxUsers, nm \in 0..MaxMerchants :
         /\ num_users = nu
         /\ num_merchants = nm
         /\ users = SampleUsers(nu)
         /\ merchants = SampleMerchants(nm)
    /\ clock = 0
    /\ op = None
    /\ rnd = 0
    /\ result = NoResult

Next ==
    \/ generate_normal_transaction
    \/ generate_transaction
    \/ generate_unusual_amount
    \/ generate_geographic_anomaly
    \/ generate_high_frequency
    \/ generate_card_testing
    \/ generate_time_anomaly
    \/ generate_round_amount
    \/ generate_high_risk_category
    \/ generate_random_fraud
    \/ Consume
    \/ Tick

Spec == Init /\ [][Next]_vars

(***************************************************************************)
(* Properties                                                              *)
(***************************************************************************)
Returned == result.kind = "return"

Raised == result.kind = "raise"

\* the records of the returned value (one for a single Transaction)
Records == {result.value[i] : i \in 1..Len(result.value)}

FraudTags ==
    {"unusual_amount", "geographic_anomaly", "high_frequency", "card_testing",
     "time_anomaly", "round_amount", "high_risk_category"}

PatternCalls ==
    {"generate_unusual_amount", "generate_geographic_anomaly", "generate_high_frequency",
     "generate_card_testing", "generate_time_anomaly", "generate_round_amount",
     "generate_high_risk_category"}

\* the users of the pool that carry the user_id of tx
UsersOf(tx) == {users[i] : i \in {j \in 1..Len(users) : users[j].user_id = tx.user_id}}

InBox(lat, lon) ==
    /\ US_LAT_RANGE[1] <= lat /\ lat <= US_LAT_RANGE[2]
    /\ US_LON_RANGE[1] <= lon /\ lon <= US_LON_RANGE[2]

\* C1: every Transaction any generator returns has is_fraud true exactly when
\* fraud_type is set, and a set fraud_type is one of the seven pattern tags.
C1_LabelConsistent ==
    Returned =>
        \A tx \in Records :
            /\ tx.is_fraud <=> tx.fraud_type # None
            /\ tx.fraud_type # None => tx.fraud_type \in FraudTags

\* C1 witness: a burst of labelled fraud records has been returned.
C1_Witness ==
    /\ Returned
    /\ op = "generate_card_testing"
    /\ \E tx \in Records : tx.is_fraud /\ tx.fraud_type = "card_testing"

\* C2: generate_transaction emits a fraud record exactly when its random draw
\* is below the fraud probability, and a normal record otherwise.
C2_DrawDecidesFraud ==
    (op = "generate_transaction" /\ Returned) =>
        \A tx \in Records :
            /\ rnd < FRAUD_PROBABILITY => (tx.is_fraud /\ tx.fraud_type # None)
            /\ rnd >= FRAUD_PROBABILITY => ~tx.is_fraud

\* C3: every Transaction a fraud pattern returns lies inside the bounding box
\* (the users' homes lie inside it).
C3_FraudLocationInBox ==
    (op \in PatternCalls /\ Returned
        /\ \A i \in 1..Len(users) : InBox(users[i].home_lat, users[i].home_lon)) =>
        \A tx \in Records : InBox(tx.location_lat, tx.location_lon)

\* C4: a generator never exists with num_users <= 0 or num_merchants <= 0:
\* such a construction fails and leaves no pools.
C4_NonPositiveCountsRejected ==
    constructed => (num_users > 0 /\ num_merchants > 0)

\* C5: a pattern generator or the normal synthesizer called on an empty user
\* pool or an empty merchant pool raises and returns no record at all; on
\* non-empty pools generate_high_risk_category returns a record even when no
\* merchant of the pool is high-risk.
C5_EmptyPoolRaises ==
    /\ (op \in PatternCalls \cup {"generate_normal_transaction"}
            /\ (Len(users) = 0 \/ Len(merchants) = 0)) =>
          (Raised /\ result.value = <<>>)
    /\ (op = "generate_high_risk_category" /\ Len(users) > 0 /\ Len(merchants) > 0) =>
          (Returned /\ Len(result.value) = 1)

\* C5 witness: the burst generator was called with users but no merchants and
\* raised.
C5_Witness ==
    /\ op = "generate_high_frequency"
    /\ Len(users) > 0
    /\ Len(merchants) = 0
    /\ Raised

\* C6: the Transaction generate_geographic_anomaly returns lies more than
\* 5 degrees (Euclidean, in degrees) from the home of its user.
C6_GeoFarFromHome ==
    (op = "generate_geographic_anomaly" /\ Returned) =>
        \A tx \in Records : \A u \in UsersOf(tx) :
            (tx.location_lat - u.home_lat) * (tx.location_lat - u.home_lat)
              + (tx.location_lon - u.home_lon) * (tx.location_lon - u.home_lon) > 50 * 50

\* C7: no two users of the built pool share a user_id and no two merchants
\* share a merchant_id.
C7_UniqueIds ==
    /\ \A i, j \in 1..Len(users) : i # j => users[i].user_id # users[j].user_id
    /\ \A i, j \in 1..Len(merchants) :
          i # j => merchants[i].merchant_id # merchants[j].merchant_id

\* C8: the amount generate_unusual_amount returns is between 10 and 20 times
\* the typical_spending of the user it names, up to half a cent of rounding.
C8_UnusualAmountRange ==
    (op = "generate_unusual_amount" /\ Returned) =>
        \A tx \in Records :
            /\ UsersOf(tx) # {}
            /\ \A u \in UsersOf(tx) :
                  /\ tx.amount * 1000 >= u.typical_spending * 100 - 500
                  /\ tx.amount * 1000 <= u.typical_spending * 200 + 500

\* C8 witness: an unusual amount that rounding put below 10 times the spending.
C8_Witness ==
    /\ op = "generate_unusual_amount"
    /\ Returned
    /\ \E tx \in Records : \E u \in UsersOf(tx) :
          tx.amount * 1000 < u.typical_spending * 100

\* C9: generate_high_frequency returns 8 to 15 records of one user whose
\* timestamps span at most 300 seconds.
C9_HighFrequencyBurst ==
    (op = "generate_high_frequency" /\ Returned) =>
        /\ result.is_list
        /\ Len(result.value) >= 8
        /\ Len(result.value) <= 15
        /\ \A a, b \in Records :
              /\ a.user_id = b.user_id
              /\ a.timestamp - b.timestamp <= 300

\* C9 witness: a burst of 15 records whose timestamps span exactly 300 seconds.
C9_Witness ==
    /\ op = "generate_high_frequency"
    /\ Returned
    /\ Len(result.value) = 15
    /\ \E a, b \in Records : a.timestamp - b.timestamp = 300

\* C10: generate_card_testing returns 5 to 10 records of one user, each with
\* an amount from 0.50 to 5.00.
C10_CardTestingBurst ==
    (op = "generate_card_testing" /\ Returned) =>
        /\ result.is_list
        /\ Len(result.value) >= 5
        /\ Len(result.value) <= 10
        /\ \A a, b \in Records : a.user_id = b.user_id
        /\ \A tx \in Records : tx.amount >= 50 /\ tx.amount <= 500

\* C10 witness: a burst of 10 records holding both the smallest and the
\* largest test amount.
C10_Witness ==
    /\ op = "generate_card_testing"
    /\ Returned
    /\ Len(result.value) = 10
    /\ \E a, b \in Records : a.amount = 50 /\ b.amount = 500

SinglePatternTags ==
    {"unusual_amount", "geographic_anomaly", "time_anomaly", "round_amount",
     "high_risk_category"}

\* the tags of the records a call of generate_random_fraud can return in this
\* state
RandomFraudTags ==
    {r.value[1].fraud_type : r \in {x \in random_fraud_outcomes : x.kind = "return"}}

\* C11: generate_random_fraud returns one Transaction, never a list, with
\* is_fraud true and the tag of a single-transaction pattern, and on non-empty
\* pools each of the five single-transaction patterns can be what it returns.
C11_RandomFraudSingle ==
    /\ (op = "generate_random_fraud" /\ Returned) =>
          /\ ~result.is_list
          /\ Len(result.value) = 1
          /\ result.value[1].is_fraud
          /\ result.value[1].fraud_type \in SinglePatternTags
    /\ (op = "generate_random_fraud" /\ Len(users) > 0 /\ Len(merchants) > 0) => Returned
    /\ (Ready /\ Len(users) > 0 /\ Len(merchants) > 0) =>
          /\ ENABLED generate_random_fraud
          /\ SinglePatternTags \subseteq RandomFraudTags

\* C11 witness: generate_random_fraud returned a high_risk_category record,
\* the last generator of its list.
C11_Witness ==
    /\ op = "generate_random_fraud"
    /\ Returned
    /\ result.value[1].fraud_type = "high_risk_category"

\* C12: after any calls of the generators, in any order, the user pool and the
\* merchant pool are the records the construction built, field for field, and
\* a caller that is ready may call any of the eight generators next.
C12_PoolsUnchanged ==
    /\ users = SampleUsers(num_users)
    /\ merchants = SampleMerchants(num_merchants)
    /\ Ready =>
          /\ ENABLED generate_normal_transaction
          /\ ENABLED generate_unusual_amount
          /\ ENABLED generate_geographic_anomaly
          /\ ENABLED generate_high_frequency
          /\ ENABLED generate_card_testing
          /\ ENABLED generate_time_anomaly
          /\ ENABLED generate_round_amount
          /\ ENABLED generate_high_risk_category

\* C12 witness: a burst over both pools has been returned, later than the
\* construction, and the pools still hold two users and two merchants.
C12_Witness ==
    /\ op = "generate_high_frequency"
    /\ Returned
    /\ clock > 0
    /\ Len(users) = 2
    /\ Len(merchants) = 2
    /\ \E a, b \in Records : a.merchant_id # b.merchant_id

\* the merchants of the pool that carry the merchant_id of tx
MerchantsOf(tx) ==
    {merchants[i] : i \in {j \in 1..Len(merchants) : merchants[j].merchant_id = tx.merchant_id}}

Abs(x) == IF x >= 0 THEN x ELSE -x

\* C13: the Transaction generate_normal_transaction returns has is_fraud
\* false, an amount inside the (min, max) range of the category of the
\* merchant it names, and a location within 0.7 degrees of the home of the
\* user it names on each axis.
C13_NormalTransaction ==
    (op = "generate_normal_transaction" /\ Returned) =>
        \A tx \in Records :
            /\ ~tx.is_fraud
            /\ MerchantsOf(tx) # {}
            /\ \A m \in MerchantsOf(tx) :
                  /\ tx.amount >= CATEGORY_SPENDING_RANGES[m.category][1] * 100
                  /\ tx.amount <= CATEGORY_SPENDING_RANGES[m.category][2] * 100
            /\ UsersOf(tx) # {}
            /\ \A u \in UsersOf(tx) :
                  /\ Abs(tx.location_lat - u.home_lat) <= 7
                  /\ Abs(tx.location_lon - u.home_lon) <= 7

\* C13 witness: a normal record at the top of its category range, 0.7 degrees
\* north of home.
C13_Witness ==
    /\ op = "generate_normal_transaction"
    /\ Returned
    /\ \E tx \in Records : \E m \in MerchantsOf(tx) : \E u \in UsersOf(tx) :
          /\ tx.amount = CATEGORY_SPENDING_RANGES[m.category][2] * 100
          /\ tx.location_lat - u.home_lat = 7

\* C14: generate_high_risk_category on non-empty pools always returns one
\* record; it names a merchant of the pool, of a high-risk category whenever
\* the pool holds such a merchant, and its amount is from 2000 to 5000.
C14_HighRiskCategory ==
    /\ (op = "generate_high_risk_category" /\ Len(users) > 0 /\ Len(merchants) > 0) => Returned
    /\ (op = "generate_high_risk_category" /\ Returned) =>
          \A tx \in Records :
              /\ MerchantsOf(tx) # {}
              /\ (\E i \in 1..Len(merchants) : merchants[i].category \in high_risk_categories) =>
                    /\ tx.merchant_category \in high_risk_categories
                    /\ \A m \in MerchantsOf(tx) : m.category \in high_risk_categories
              /\ tx.amount >= 200000
              /\ tx.amount <= 500000

\* C14 witness: a high-risk record from a pool that also holds a merchant of
\* another category.
C14_Witness ==
    /\ op = "generate_high_risk_category"
    /\ Returned
    /\ result.value[1].merchant_category \in high_risk_categories
    /\ \E i \in 1..Len(merchants) : merchants[i].category \notin high_risk_categories

\* a pool without any high-risk merchant: the call fell back to the whole
\* pool and returned a record of it
HighRiskFallbackTaken ==
    /\ op = "generate_high_risk_category"
    /\ Returned
    /\ Len(high_risk_merchants) = 0
    /\ MerchantsOf(result.value[1]) # {}

\* the device ids generate_normal_transaction can produce in this state
NormalDeviceIds == {r.value[1].device_id : r \in {x \in normal_outcomes : x.kind = "return"}}

\* C15: no device id that generate_geographic_anomaly or generate_time_anomaly
\* returns is a device id generate_normal_transaction can produce.
C15_NewDeviceRangeDisjoint ==
    (op \in {"generate_geographic_anomaly", "generate_time_anomaly"} /\ Returned) =>
        \A tx \in Records : tx.device_id \notin NormalDeviceIds

\* C16: every record any generator returns carries the user_id of a user of
\* the pool and the merchant_id of a merchant of the pool, with that
\* merchant's name and category.
C16_ForeignKeys ==
    Returned =>
        \A tx \in Records :
            /\ UsersOf(tx) # {}
            /\ \E m \in MerchantsOf(tx) :
                  /\ tx.merchant_name = m.merchant_name
                  /\ tx.merchant_category = m.category

\* C16 witness: a card-testing burst whose records name two merchants of
\* different categories.
C16_Witness ==
    /\ op = "generate_card_testing"
    /\ Returned
    /\ \E a, b \in Records :
          /\ a.merchant_id # b.merchant_id
          /\ a.merchant_category # b.merchant_category

====
